---------------------------- MODULE Spec2Model ----------------------------
(***************************************************************************)
(* Model of bem-comsol:                                                    *)
(*   src/bemcomsol/mode1d.py  unit_to_num, eqposition_sym, eqposition,     *)
(*                            mode1d, eqposition_analytic, mode1d_analytic *)
(*   src/freqsol.py           SymEqposition, Eqposition, AxialFull,        *)
(*                            AxialMode (constants from src/globalvar.py)  *)
(*   src/bemcomsol/simulation.py  simulate, load (the same text as         *)
(*                            src/simulate.py and src/load.py)             *)
(*   src/ctrl_voltage.py      the sweep script                             *)
(*                                                                         *)
(* Numbers.  The code computes in IEEE doubles.  The model computes in     *)
(* exact extended rationals <<n, d>> (d >= 0, lowest terms):               *)
(*   d > 0            the rational n/d                                     *)
(*   <<1,0>> <<-1,0>> +inf and -inf  (numpy: x/0.0 is +-inf, a warning,    *)
(*                    never an exception)                                  *)
(*   <<0,0>>          nan                                                  *)
(* Rounding is not modelled; zero is unsigned (every zero the code divides *)
(* by is a difference or a power of equal operands, hence +0.0).           *)
(*                                                                         *)
(* Library calls (scipy.optimize.root, root_scalar, UnivariateSpline,      *)
(* numpy.linalg.eig) are not code of the repository.  Each is modelled by  *)
(* its contract, with its result drawn nondeterministically where the      *)
(* contract leaves it open.                                                *)
(*                                                                         *)
(* The COMSOL model behind mph is its parameter table and the number of    *)
(* its export nodes; model.solve() is recorded with the table it ran on,   *)
(* and an exported file holds the solve whose data it carries.  The file   *)
(* system is the data folder: directory path -> file name -> content.      *)
(***************************************************************************)
EXTENDS Integers, Sequences, FiniteSets, TLC

---------------------------------------------------------------------------
(* Bounds of the model *)

\* sample and ion coordinates are the integers -MaxPos .. MaxPos
MaxPos == 2
\* curvature coefficients of the potential range over 0 .. MaxCurv
MaxCurv == 2
\* the bracket scan is followed for at most MaxScan advances
MaxScan == 4

\* ion counts the solvers are called with
IonCounts == {1, 2, 3}

---------------------------------------------------------------------------
(* Extended rational arithmetic (IEEE semantics without rounding) *)

Abs(i) == IF i < 0 THEN -i ELSE i
Sgn(i) == IF i < 0 THEN -1 ELSE IF i > 0 THEN 1 ELSE 0

RECURSIVE GCD(_, _)
GCD(a, b) == IF b = 0 THEN a ELSE GCD(b, a % b)

NaN == <<0, 0>>
PosInf == <<1, 0>>
NegInf == <<-1, 0>>
Zero == <<0, 1>>
One == <<1, 1>>
Two == <<2, 1>>

Norm(n, d) ==
    IF d = 0 THEN <<Sgn(n), 0>>
    ELSE LET g == GCD(Abs(n), Abs(d))
             s == IF d < 0 THEN -1 ELSE 1
         IN  <<(s * n) \div g, (s * d) \div g>>

Rat(i) == <<i, 1>>
IsNaN(x) == x = NaN
IsInf(x) == x[2] = 0 /\ x[1] # 0
IsFinite(x) == x[2] > 0
XSign(x) == Sgn(x[1])
XNeg(x) == <<-x[1], x[2]>>
XAbs(x) == <<Abs(x[1]), x[2]>>

XAdd(x, y) ==
    IF IsNaN(x) \/ IsNaN(y) THEN NaN
    ELSE IF IsInf(x) THEN (IF IsInf(y) /\ y # x THEN NaN ELSE x)
    ELSE IF IsInf(y) THEN y
    ELSE LET g == GCD(x[2], y[2])
         IN  Norm(x[1] * (y[2] \div g) + y[1] * (x[2] \div g), (x[2] \div g) * y[2])

XSub(x, y) == XAdd(x, XNeg(y))

XMul(x, y) ==
    IF x[2] = 0 \/ y[2] = 0 THEN
        \* inf*0 and nan*anything are nan; otherwise the signed infinity
        IF IsNaN(x) \/ IsNaN(y) THEN NaN ELSE <<Sgn(x[1]) * Sgn(y[1]), 0>>
    ELSE LET g1 == GCD(Abs(x[1]), y[2])
             g2 == GCD(Abs(y[1]), x[2])
         IN  Norm((x[1] \div g1) * (y[1] \div g2), (x[2] \div g2) * (y[2] \div g1))

\* 1/x: 1/0 is +inf, 1/inf is 0
XInv(x) ==
    IF x[2] = 0 THEN (IF IsNaN(x) THEN NaN ELSE Zero)
    ELSE Norm(x[2], x[1])

XDiv(x, y) == XMul(x, XInv(y))
XSq(x) == XMul(x, x)
XCube(x) == XMul(x, XMul(x, x))

\* x < y; false when either side is nan (inf - inf is nan, and inf < inf is false)
XLt(x, y) == ~IsNaN(x) /\ ~IsNaN(y) /\ XSign(XSub(x, y)) < 0
XLe(x, y) == ~IsNaN(x) /\ ~IsNaN(y) /\ ~XLt(y, x)

\* np.sum over the elements of a sequence; the sum of an empty array is 0
RECURSIVE XSum(_)
XSum(s) == IF s = <<>> THEN Zero ELSE XAdd(XSum(SubSeq(s, 1, Len(s) - 1)), s[Len(s)])

---------------------------------------------------------------------------
(* mode1d.py: unit_to_num *)

\* the tags the model calls unit_to_num with: the eight recognised
\* spellings and some that are not recognised
UnitTags == {"[m]", "m", "[mm]", "mm", "[um]", "um", "[nm]", "nm",
             "ft", "", "[km]", "UM", "[m", "cm"}

Returned(v) == [kind |-> "return", exc |-> "", val |-> v]
Raised(e) == [kind |-> "raise", exc |-> e, val |-> NaN]
NoResult == [kind |-> "none", exc |-> "", val |-> NaN]

\* a unit_to_num that knows only the bracketed spellings
unit_to_num_BracketedOnly(unit) ==
    IF unit = "[m]" THEN Returned(<<1, 1>>)
    ELSE IF unit = "[mm]" THEN Returned(<<1, 1000>>)
    ELSE IF unit = "[um]" THEN Returned(<<1, 1000000>>)
    ELSE IF unit = "[nm]" THEN Returned(<<1, 1000000000>>)
    ELSE Raised("TypeError")

unit_to_num(unit) ==
    IF unit = "[m]" \/ unit = "m" THEN Returned(<<1, 1>>)
    ELSE IF unit = "[mm]" \/ unit = "mm" THEN Returned(<<1, 1000>>)
    ELSE IF unit = "[um]" \/ unit = "um" THEN Returned(<<1, 1000000>>)
    ELSE IF unit = "[nm]" \/ unit = "nm" THEN Returned(<<1, 1000000000>>)
    ELSE Raised("TypeError")


---------------------------------------------------------------------------
(* Physical constants and the caller's potential *)

\* e/(4*pi*epsilon0), about 1.44e-9 V*m.  TLC's integers are 32 bits wide,
\* so the model measures voltages in units in which this constant is 1;
\* lengths stay in metres.  Every use in the code is through
\* e/(4*pi*epsilon0*r0) or its inverse.
COUL == One

\* globalvar.py: r0 = 400e-6
r0_global == <<1, 2500>>

\* e/(4*pi*epsilon0*r0)
kappa(r0) == XDiv(COUL, r0)
\* 4*pi*epsilon0*r0/e
Kfac(r0) == XDiv(r0, COUL)

\* The field data provider.  A potential is given by its curvature
\* coefficients c = <<a, b>>: V''(x) = a + b*x, V'(x) = a*x + b*x^2/2.
\* b = 0 is the harmonic well.  The sampled paths evaluate the spline fitted
\* to samples of V (UnivariateSpline, modelled by V itself) and its
\* derivative(1) and derivative(2).
dVfun(c, x) == XAdd(XMul(Rat(c[1]), x), XMul(<<c[2], 2>>, XSq(x)))
ddVfun(c, x) == XAdd(Rat(c[1]), XMul(Rat(c[2]), x))

Curvatures == {<<a, b>> : a \in 0..MaxCurv, b \in {0, 1}}

\* position vectors (initial guesses, equilibrium configurations) of n ions,
\* in any index order, coincident positions included; in the sampled paths
\* the ions lie within the sampled range
Positions(n) == [1..n -> -MaxPos..MaxPos]
PositionsIn(rg, n) == [1..n -> rg[1]..rg[2]]

\* sample arrays z: the grid lo, lo+1, .., hi
SampleRanges == {r \in (-MaxPos..MaxPos) \X (-MaxPos..MaxPos) : r[1] < r[2]}
SampleArray(r) == [i \in 1..(r[2] - r[1] + 1) |-> r[1] + i - 1]

\* units the solvers are called with (unit_to_num is called with UnitTags)
SolverUnits == {"[m]", "mm", "ft"}
SampledUnits == {"[m]", "ft"}

---------------------------------------------------------------------------
(* The force-balance system: solfun / func / dfunc and jac *)

\* the slice zeta[:n+1] in place of zeta[:n]: ion n itself is included
DiffBefore_Inclusive(zeta, n) == [j \in 1..n |-> XSub(zeta[n], zeta[j])]

\* zeta[n]-zeta[:n] and zeta[n]-zeta[n+1:] : the differences to the ions
\* before and after ion n (n counts from 1 here, from 0 in the code)
DiffBefore(zeta, n) == [j \in 1..(n - 1) |-> XSub(zeta[n], zeta[j])]
DiffAfter(zeta, n) == [j \in 1..(Len(zeta) - n) |-> XSub(zeta[n], zeta[n + j])]

InvSq(d) == [j \in 1..Len(d) |-> XInv(XSq(d[j]))]
InvCube(d) == [j \in 1..Len(d) |-> XInv(XCube(d[j]))]

\* y[n] = dV(zeta[n]) + e/(4*pi*epsilon0*r0)*(-np.sum(1/(zeta[n]-zeta[:n])**2)
\*                                            +np.sum(1/(zeta[n]-zeta[n+1:])**2))
solfun(c, r0, zeta) ==
    [n \in 1..Len(zeta) |->
        XAdd(dVfun(c, zeta[n]),
             XMul(kappa(r0),
                  XAdd(XNeg(XSum(InvSq(DiffBefore(zeta, n)))),
                       XSum(InvSq(DiffAfter(zeta, n))))))]

\* J[i,i] = ddV(zeta[i]) + e/(4*pi*epsilon0*r0)*2*(np.sum(1/(zeta[i]-zeta[:i])**3)
\*                                                -np.sum(1/(zeta[i]-zeta[i+1:])**3))
\* J[i,j] = -2*e/(4*pi*epsilon0*r0)/np.absolute(zeta[i]-zeta[j])**3
jac(c, r0, zeta) ==
    [i \in 1..Len(zeta) |-> [j \in 1..Len(zeta) |->
        IF j = i
        THEN XAdd(ddVfun(c, zeta[i]),
                  XMul(XMul(kappa(r0), Two),
                       XSub(XSum(InvCube(DiffBefore(zeta, i))),
                            XSum(InvCube(DiffAfter(zeta, i))))))
        ELSE XDiv(XMul(XNeg(Two), kappa(r0)),
                  XCube(XAbs(XSub(zeta[i], zeta[j]))))]]

\* the divisors of the divisions one evaluation of solfun and of jac
\* performs: every pairwise difference, squared or cubed
Divisors(zeta) ==
    LET N == Len(zeta)
    IN  {XSub(zeta[p[1]], zeta[p[2]]) : p \in {q \in (1..N) \X (1..N) : q[1] # q[2]}}
        \cup UNION {{DiffBefore(zeta, n)[j] : j \in 1..Len(DiffBefore(zeta, n))}
                    \cup {DiffAfter(zeta, n)[j] : j \in 1..Len(DiffAfter(zeta, n))}
                    : n \in 1..N}

---------------------------------------------------------------------------
(* The state: one call of one function of the package, its arguments, the
   values the call computes on its way, and its outcome *)

VARIABLES
    op,       \* the function called, "none" before the call
    pc,       \* "idle", then the position inside the call, then "done"
    unit,     \* argument unit
    samples,  \* argument z, as <<lo, hi>> of its grid (<<>>: no samples)
    pos,      \* argument inipos or z0: the ions' positions, in index order
    curv,     \* the potential of the field data provider
    zlim,     \* local zlim
    zeta,     \* local zeta = z/zlim, the rescaled samples
    r0,       \* local (module-level in freqsol.py) r0
    fvec0,    \* solfun at the initial guess, root()'s first evaluation
    J0,       \* jac at the initial guess
    sol,      \* the OptimizeResult of scipy.optimize.root
    ddU,      \* local ddU, the matrix H
    w,        \* w as returned by np.linalg.eig
    scan,     \* bracket scan: start (the argument pos0), the locals pos0 and
              \* step, and k, the advances made
    ret       \* outcome of the call: a returned value or a raised exception

\* the state of the COMSOL drivers (simulation.py, simulate.py,
\* ctrl_voltage.py, load.py): the local variables of simulate() and of the
\* ctrl_voltage script, the COMSOL model and the data folder
VARIABLES
    paramdict,        \* local paramdict: the names model.parameters() gave, in order
    model,            \* the parameter table of the COMSOL model: name -> expression
    nodes,            \* the number of nodes of the model's 'exports' group
    list_parameters,  \* local list_parameters
    consumed,         \* the combinations taken from product(*expr_list) so far
    parameter_set,    \* local parameter_set
    dirpath,          \* local dirpath
    fs,               \* the data folder: directory path -> file name -> content
    dci,              \* the position of 'for param in paramdict' in paramdict
    solves,           \* the calls of model.solve(), in order
    files             \* load(): os.listdir(cwd) with the files' contents

simvars == <<paramdict, model, nodes, list_parameters, consumed, parameter_set,
             dirpath, fs, dci, solves, files>>

vars == <<op, pc, unit, samples, pos, curv, zlim, zeta, r0, fvec0, J0, sol,
          ddU, w, scan, ret, simvars>>

NoSol == [success |-> FALSE, x |-> <<>>]
NoScan == [start |-> NaN, pos0 |-> NaN, step |-> NaN, k |-> 0]

Init ==
    /\ op = "none"
    /\ pc = "idle"
    /\ paramdict = <<>>
    /\ model = <<>>
    /\ nodes = 0
    /\ list_parameters = <<>>
    /\ consumed = 0
    /\ parameter_set = <<>>
    /\ dirpath = <<>>
    /\ fs = <<>>
    /\ dci = 0
    /\ solves = <<>>
    /\ files = <<>>
    /\ unit = ""
    /\ samples = <<>>
    /\ pos = <<>>
    /\ curv = <<0, 0>>
    /\ zlim = NaN
    /\ zeta = <<>>
    /\ r0 = NaN
    /\ fvec0 = <<>>
    /\ J0 = <<>>
    /\ sol = NoSol
    /\ ddU = <<>>
    /\ w = <<>>
    /\ scan = NoScan
    /\ ret = NoResult

---------------------------------------------------------------------------
(* unit_to_num called by the user *)

Call_unit_to_num ==
    /\ pc = "idle"
    /\ UNCHANGED simvars
    /\ \E u \in UnitTags :
        /\ unit' = u
        /\ ret' = unit_to_num(u)
    /\ op' = "unit_to_num"
    /\ pc' = "done"
    /\ UNCHANGED <<samples, pos, curv, zlim, zeta, r0, fvec0, J0, sol, ddU, w, scan>>

---------------------------------------------------------------------------
(* The Coordinate Rescaler *)

MaxOf(S) == CHOOSE m \in S : \A x \in S : x <= m
MinOf(S) == CHOOSE m \in S : \A x \in S : m <= x
Elems(z) == {z[i] : i \in 1..Len(z)}

\* eqposition, mode1d: zlim = max(np.abs(np.max(z)),np.abs(np.min(z)))
zlim_general(z) ==
    LET a == Abs(MaxOf(Elems(z)))
        b == Abs(MinOf(Elems(z)))
    IN  IF a >= b THEN a ELSE b

\* eqposition_sym: zlim = np.max(z)
zlim_sym(z) == MaxOf(Elems(z))

\* z/zlim, elementwise
Rescale(z, lim) == [i \in 1..Len(z) |-> XDiv(Rat(z[i]), Rat(lim))]
\* zeta0 * zlim, elementwise
Unscale(x, lim) == [i \in 1..Len(x) |-> XMul(x[i], Rat(lim))]

---------------------------------------------------------------------------
(* The general equilibrium solvers *)

\* scipy.optimize.root(fun, x0, method=method, jac=jac): it evaluates fun
\* and jac at x0, iterates, and returns an OptimizeResult whose success flag
\* tells whether it converged and whose x is the last iterate.  The iterate
\* is drawn from: a chain spaced two apart, and nan.
RootIterates(x0) ==
    {[i \in 1..Len(x0) |-> Rat(2 * i - Len(x0) - 1)],
     [i \in 1..Len(x0) |-> NaN]}
RootResults(x0) == [success : BOOLEAN, x : RootIterates(x0)]

\* mode1d.py: eqposition (sampled potential)
Call_eqposition ==
    /\ pc = "idle"
    /\ UNCHANGED simvars
    /\ \E rg \in SampleRanges, n \in IonCounts, u \in SampledUnits, c \in Curvatures :
       \E inipos \in PositionsIn(rg, n) :
        LET z == SampleArray(rg)
            lim == zlim_general(z)
            inipos_zeta == Rescale(inipos, lim)
            f == unit_to_num(u)
            r == XMul(Rat(lim), f.val)
        IN  /\ samples' = rg
            /\ pos' = inipos
            /\ unit' = u
            /\ curv' = c
            /\ zlim' = Rat(lim)
            /\ zeta' = Rescale(z, lim)
            /\ IF f.kind = "raise"
               THEN \* line 119: the exception of unit_to_num propagates
                    /\ ret' = f
                    /\ UNCHANGED <<r0, fvec0, J0, sol>>
               ELSE /\ r0' = r
                    /\ fvec0' = solfun(c, r, inipos_zeta)
                    /\ J0' = jac(c, r, inipos_zeta)
                    /\ \E res \in RootResults(inipos_zeta) :
                        /\ sol' = res
                        \* lines 142-144: z0 = root(...).x * zlim; return z0
                        /\ ret' = Returned(Unscale(res.x, lim))
    /\ op' = "eqposition"
    /\ pc' = "done"
    /\ UNCHANGED <<ddU, w, scan>>

\* mode1d.py: eqposition_analytic (no rescaling: r0 = unit_to_num(unit))
Call_eqposition_analytic ==
    /\ pc = "idle"
    /\ UNCHANGED simvars
    /\ \E n \in IonCounts, u \in SolverUnits, c \in Curvatures :
       \E inipos \in Positions(n) :
        LET x0 == [i \in 1..n |-> Rat(inipos[i])]
            f == unit_to_num(u)
        IN  /\ pos' = inipos
            /\ unit' = u
            /\ curv' = c
            /\ IF f.kind = "raise"
               THEN /\ ret' = f
                    /\ UNCHANGED <<r0, fvec0, J0, sol>>
               ELSE /\ r0' = f.val
                    /\ fvec0' = solfun(c, f.val, x0)
                    /\ J0' = jac(c, f.val, x0)
                    /\ \E res \in RootResults(x0) :
                        /\ sol' = res
                        \* lines 251-252: z0 = root(...).x; return z0
                        /\ ret' = Returned(res.x)
    /\ op' = "eqposition_analytic"
    /\ pc' = "done"
    /\ UNCHANGED <<samples, zlim, zeta, ddU, w, scan>>

\* freqsol.py: Eqposition (r0 is the global of globalvar.py)
Call_Eqposition ==
    /\ pc = "idle"
    /\ UNCHANGED simvars
    /\ \E n \in IonCounts, c \in Curvatures :
       \E inipos \in Positions(n) :
        LET x0 == [i \in 1..n |-> Rat(inipos[i])]
        IN  /\ pos' = inipos
            /\ curv' = c
            /\ r0' = r0_global
            /\ fvec0' = solfun(c, r0_global, x0)
            /\ J0' = jac(c, r0_global, x0)
            /\ \E res \in RootResults(x0) :
                /\ sol' = res
                \* lines 54-55: zeta0 = root(...).x; return zeta0
                /\ ret' = Returned(res.x)
    /\ op' = "Eqposition"
    /\ pc' = "done"
    /\ UNCHANGED <<unit, samples, zlim, zeta, ddU, w, scan>>

---------------------------------------------------------------------------
(* The normal-mode solvers *)

\* ddU[i,i] = 4*pi*epsilon0*r0/e * ddV(zeta0[i])
\*            + 2*(np.sum(1/(zeta0[i]-zeta0[:i])**3) - np.sum(1/(zeta0[i]-zeta0[i+1:])**3))
\* ddU[i,j] = -2/np.absolute(zeta0[i]-zeta0[j])**3
\* the off-diagonal entry without np.absolute
Hessian_Signed(c, r, zeta0) ==
    [i \in 1..Len(zeta0) |-> [j \in 1..Len(zeta0) |->
        IF j = i
        THEN XAdd(XMul(Kfac(r), ddVfun(c, zeta0[i])),
                  XMul(Two,
                       XSub(XSum(InvCube(DiffBefore(zeta0, i))),
                            XSum(InvCube(DiffAfter(zeta0, i))))))
        ELSE XDiv(XNeg(Two), XCube(XSub(zeta0[i], zeta0[j])))]]

Hessian(c, r, zeta0) ==
    [i \in 1..Len(zeta0) |-> [j \in 1..Len(zeta0) |->
        IF j = i
        THEN XAdd(XMul(Kfac(r), ddVfun(c, zeta0[i])),
                  XMul(Two,
                       XSub(XSum(InvCube(DiffBefore(zeta0, i))),
                            XSum(InvCube(DiffAfter(zeta0, i))))))
        ELSE XDiv(XNeg(Two), XCube(XAbs(XSub(zeta0[i], zeta0[j]))))]]

AllFinite(H) == \A i \in 1..Len(H) : \A j \in 1..Len(H) : IsFinite(H[i][j])

\* np.linalg.eig(ddU).  The model holds the spectrum where it is rational:
\* a 1x1 matrix, and a 2x2 matrix [[a, b], [b, a]], whose eigenvalues are
\* a - |b| and a + |b|.  Other matrices are outside the model: the call is
\* followed up to the decomposition and no further.
SpectrumKnown(H) ==
    \/ Len(H) = 1
    \/ Len(H) = 2 /\ H[1][1] = H[2][2] /\ H[1][2] = H[2][1]

Spectrum(H) ==
    IF Len(H) = 1 THEN <<H[1][1]>>
    ELSE <<XSub(H[1][1], XAbs(H[1][2])), XAdd(H[1][1], XAbs(H[1][2]))>>

\* eig returns the eigenvalues in no particular order
Orders(n) == {p \in [1..n -> 1..n] : \A i, j \in 1..n : i # j => p[i] # p[j]}
Take(x, idx) == [i \in 1..Len(idx) |-> x[idx[i]]]

\* np.argsort(w): idx[i] is the index of the i-th smallest entry of w
\* (equal entries keep their index order)
Before(x, i, j) == XLt(x[i], x[j]) \/ (~XLt(x[j], x[i]) /\ i < j)
\* no sort: the eigenvalues stay in the order eig returned them
argsort_Unsorted(x) == [r \in 1..Len(x) |-> r]

\* np.argsort(w)
argsort(x) ==
    [r \in 1..Len(x) |->
        CHOOSE i \in 1..Len(x) :
            Cardinality({j \in 1..Len(x) : j # i /\ Before(x, j, i)}) = r - 1]

\* the largest integer whose square is at most n
RECURSIVE ISqrtFrom(_, _)
ISqrtFrom(n, r) == IF (r + 1) * (r + 1) > n THEN r ELSE ISqrtFrom(n, r + 1)
ISqrt(n) == ISqrtFrom(n, 0)

\* the square root is taken to SqrtRes steps per unit, rounded down
SqrtRes == 10

\* np.sqrt on a real array: nan for a negative entry
XSqrt(x) ==
    IF IsNaN(x) \/ XSign(x) < 0 THEN NaN
    ELSE IF IsInf(x) THEN PosInf
    ELSE LET scaled == (x[1] \div x[2]) * SqrtRes * SqrtRes
                       + ((x[1] % x[2]) * SqrtRes * SqrtRes) \div x[2]
         IN  Norm(ISqrt(scaled), SqrtRes)

\* np.sqrt(w/m*1/r0**2 * e**2/(4*pi*epsilon0*r0))/(2*pi), elementwise.  The
\* factor e**2/(4*pi*epsilon0*m*r0**3) is positive and the same for every
\* entry; the model gives the frequency in units of its root over 2*pi.
frequencies(x) == [i \in 1..Len(x) |-> XSqrt(x[i])]

\* The three solvers share their text from the matrix on:
\* the build (mode1d.py 190-197, 283-290; freqsol.py 58-65) ...
BuildHessian(name, c, r, zeta0) ==
    /\ op' = name
    /\ curv' = c
    /\ r0' = r
    /\ ddU' = Hessian(c, r, zeta0)
    /\ pc' = "eig"
    /\ UNCHANGED <<fvec0, J0, sol, w, scan, ret>>

\* ... and the decomposition, sort and conversion (mode1d.py 198-203,
\* 291-296; freqsol.py 66-70 and 76-77)
EigSort ==
    /\ pc = "eig"
    /\ UNCHANGED simvars
    /\ IF ~AllFinite(ddU)
       THEN \* np.linalg.eig raises LinAlgError on an array with inf or nan
            /\ ret' = Raised("LinAlgError")
            /\ UNCHANGED w
       ELSE /\ SpectrumKnown(ddU)
            /\ \E ord \in Orders(Len(ddU)) :
                /\ w' = Take(Spectrum(ddU), ord)
                /\ ret' = Returned(frequencies(Take(w', argsort(w'))))
    /\ pc' = "done"
    /\ UNCHANGED <<op, unit, samples, pos, curv, zlim, zeta, r0, fvec0, J0, sol, ddU, scan>>

\* mode1d.py: mode1d (sampled potential)
Call_mode1d ==
    /\ pc = "idle"
    /\ UNCHANGED simvars
    /\ \E rg \in SampleRanges, n \in IonCounts, u \in SampledUnits, c \in Curvatures :
       \E z0 \in PositionsIn(rg, n) :
        LET z == SampleArray(rg)
            lim == zlim_general(z)
            f == unit_to_num(u)
        IN  /\ samples' = rg
            /\ pos' = z0
            /\ unit' = u
            /\ zlim' = Rat(lim)
            /\ zeta' = Rescale(z, lim)
            /\ IF f.kind = "raise"
               THEN \* line 183
                    /\ ret' = f
                    /\ op' = "mode1d"
                    /\ curv' = c
                    /\ pc' = "done"
                    /\ UNCHANGED <<r0, fvec0, J0, sol, ddU, w, scan>>
               ELSE BuildHessian("mode1d", c, XMul(Rat(lim), f.val), Rescale(z0, lim))

\* mode1d.py: mode1d_analytic
Call_mode1d_analytic ==
    /\ pc = "idle"
    /\ UNCHANGED simvars
    /\ \E n \in IonCounts, u \in SolverUnits, c \in Curvatures :
       \E z0 \in Positions(n) :
        LET f == unit_to_num(u)
        IN  /\ pos' = z0
            /\ unit' = u
            /\ UNCHANGED <<samples, zlim, zeta>>
            /\ IF f.kind = "raise"
               THEN \* line 281
                    /\ ret' = f
                    /\ op' = "mode1d_analytic"
                    /\ curv' = c
                    /\ pc' = "done"
                    /\ UNCHANGED <<r0, fvec0, J0, sol, ddU, w, scan>>
               ELSE BuildHessian("mode1d_analytic", c, f.val, [i \in 1..n |-> Rat(z0[i])])

\* freqsol.py: AxialMode, which calls AxialFull
Call_AxialMode ==
    /\ pc = "idle"
    /\ UNCHANGED simvars
    /\ \E n \in IonCounts, c \in Curvatures :
       \E zeta0 \in Positions(n) :
        /\ pos' = zeta0
        /\ UNCHANGED <<unit, samples, zlim, zeta>>
        /\ BuildHessian("AxialMode", c, r0_global, [i \in 1..n |-> Rat(zeta0[i])])

---------------------------------------------------------------------------
(* The symmetric 2-ion solvers *)

\* solfunc(pos): zeta = [-pos, pos]; (dfunc(zeta)[0] - dfunc(zeta)[1])/2,
\* where dfunc has the text of solfun
solfunc(c, r, p) ==
    LET y == solfun(c, r, <<XNeg(p), p>>)
    IN  XDiv(XSub(y[1], y[2]), Two)

\* solfunc(pos0)*solfunc(pos0+step) > 0.  A product of doubles is positive
\* when both factors are non-zero and of one sign (underflow of the product
\* to zero is not modelled); a comparison with nan is false.
ProductPositive(x, y) == XSign(x) * XSign(y) > 0

\* eqposition_sym's arguments pos0 and step: the defaults (1e-3, 0.02) and
\* two coarser scans
ScanParams == {<<(<<1, 1000>>), (<<1, 50>>)>>,
               <<(<<1, 4>>), (<<1, 4>>)>>,
               <<(<<1, 2>>), (<<1, 4>>)>>}

\* freqsol.py lines 21-22: pos0 = 1e-3, step = 0.02
SymScanParams == <<(<<1, 1000>>), (<<1, 50>>)>>

\* potentials SymEqposition is called with: harmonic wells V'(x) = a*x.
\* With r0 = 400e-6 the Coulomb term at pos0 is 6.25e8 in the model's
\* voltage unit, so wells whose root lies within the first steps of the
\* scan are this stiff; a = 0 is the field-free axis.
SymCurvatures == {<<0, 0>>, <<1200000, 0>>, <<3000000, 0>>, <<10000000, 0>>,
                  <<70000000, 0>>}

\* eqposition_sym is for symmetric potentials: the harmonic wells
SymmetricCurvatures == {c \in Curvatures : c[2] = 0}

StartScan(ps) == [start |-> ps[1], pos0 |-> ps[1], step |-> ps[2], k |-> 0]

\* increasing and finite: what UnivariateSpline requires of its x
Increasing(x) ==
    /\ \A i \in 1..Len(x) : IsFinite(x[i])
    /\ \A i \in 1..(Len(x) - 1) : XLt(x[i], x[i + 1])

\* mode1d.py: eqposition_sym, up to the scan (lines 57-75)
Call_eqposition_sym ==
    /\ pc = "idle"
    /\ UNCHANGED simvars
    /\ \E rg \in SampleRanges, u \in SampledUnits, c \in SymmetricCurvatures,
          ps \in ScanParams :
        LET z == SampleArray(rg)
            lim == zlim_sym(z)
            f == unit_to_num(u)
        IN  /\ samples' = rg
            /\ unit' = u
            /\ curv' = c
            /\ zlim' = Rat(lim)
            /\ zeta' = Rescale(z, lim)
            /\ IF f.kind = "raise"
               THEN \* line 60
                    /\ ret' = f
                    /\ pc' = "done"
                    /\ UNCHANGED <<r0, scan>>
               ELSE /\ r0' = XMul(Rat(lim), f.val)
                    /\ IF ~Increasing(zeta')
                       THEN \* line 63: UnivariateSpline rejects the samples
                            /\ ret' = Raised("ValueError")
                            /\ pc' = "done"
                            /\ UNCHANGED scan
                       ELSE /\ scan' = StartScan(ps)
                            /\ pc' = "scan"
                            /\ UNCHANGED ret
    /\ op' = "eqposition_sym"
    /\ UNCHANGED <<pos, fvec0, J0, sol, ddU, w>>

\* freqsol.py: SymEqposition, up to the scan (lines 11-22)
Call_SymEqposition ==
    /\ pc = "idle"
    /\ UNCHANGED simvars
    /\ \E c \in SymCurvatures :
        /\ curv' = c
        /\ r0' = r0_global
        /\ scan' = StartScan(SymScanParams)
    /\ op' = "SymEqposition"
    /\ pc' = "scan"
    /\ UNCHANGED <<unit, samples, pos, zlim, zeta, fvec0, J0, sol, ddU, w, ret>>

\* the loop condition of mode1d.py line 77 and freqsol.py line 23
ScanCondition ==
    ProductPositive(solfunc(curv, r0, scan.pos0),
                    solfunc(curv, r0, XAdd(scan.pos0, scan.step)))

\* an expanding scan: the step doubles with every advance
ScanAdvance_Doubling ==
    /\ pc = "scan"
    /\ UNCHANGED simvars
    /\ ScanCondition
    /\ scan.k < MaxScan
    /\ scan' = [scan EXCEPT !.pos0 = XAdd(scan.pos0, scan.step),
                            !.step = XMul(Two, scan.step), !.k = scan.k + 1]
    /\ UNCHANGED <<op, pc, unit, samples, pos, curv, zlim, zeta, r0, fvec0, J0, sol,
                   ddU, w, ret>>

\* one iteration of the loop: pos0 = pos0 + step.  The model follows the
\* loop for MaxScan iterations.
ScanAdvance ==
    /\ pc = "scan"
    /\ UNCHANGED simvars
    /\ ScanCondition
    /\ scan.k < MaxScan
    /\ scan' = [scan EXCEPT !.pos0 = XAdd(scan.pos0, scan.step), !.k = scan.k + 1]
    /\ UNCHANGED <<op, pc, unit, samples, pos, curv, zlim, zeta, r0, fvec0, J0, sol,
                   ddU, w, ret>>

\* root_scalar(solfunc, method='bisect', bracket=[a, b]): ValueError unless
\* f(a)*f(b) <= 0; an end point that is a root is returned; otherwise a point
\* inside the bracket, for which the midpoint stands
bisect(c, r, a, b) ==
    LET fa == solfunc(c, r, a)
        fb == solfunc(c, r, b)
    IN  IF XSign(fa) * XSign(fb) > 0 \/ IsNaN(fa) \/ IsNaN(fb) THEN Raised("ValueError")
        ELSE IF XSign(fa) = 0 THEN Returned(a)
        ELSE IF XSign(fb) = 0 THEN Returned(b)
        ELSE Returned(XDiv(XAdd(a, b), Two))

\* the loop ends; mode1d.py lines 81-84, freqsol.py lines 26-28
Bisect ==
    /\ pc = "scan"
    /\ UNCHANGED simvars
    /\ ~ScanCondition
    /\ LET root == bisect(curv, r0, scan.pos0, XAdd(scan.pos0, scan.step))
       IN  ret' = IF root.kind = "raise" THEN root
                  ELSE IF op = "eqposition_sym"
                       THEN Returned(<<XMul(XNeg(root.val), zlim), XMul(root.val, zlim)>>)
                       ELSE Returned(<<XNeg(root.val), root.val>>)
    /\ pc' = "done"
    /\ UNCHANGED <<op, unit, samples, pos, curv, zlim, zeta, r0, fvec0, J0, sol,
                   ddU, w, scan>>

---------------------------------------------------------------------------
(* simulation.py, simulate.py: strings and their formatting.  A str is the
   sequence of its characters. *)

Digits == <<"0", "1", "2", "3", "4", "5", "6", "7", "8", "9">>

\* str(n) of an int
RECURSIVE str_int(_)
str_int(n) ==
    IF n < 0 THEN <<"-">> \o str_int(-n)
    ELSE IF n < 10 THEN <<Digits[n + 1]>>
    ELSE str_int(n \div 10) \o <<Digits[(n % 10) + 1]>>

\* digits padded with zeros on the left to width n
RECURSIVE Pad(_, _)
Pad(s, n) == IF Len(s) >= n THEN s ELSE Pad(<<"0">> \o s, n)

\* s.rstrip(chars), s.lstrip(chars), s.strip(chars): the argument is the SET
\* of characters to remove from the ends
RECURSIVE rstrip(_, _)
rstrip(s, chars) ==
    IF s # <<>> /\ s[Len(s)] \in chars THEN rstrip(SubSeq(s, 1, Len(s) - 1), chars) ELSE s

RECURSIVE lstrip(_, _)
lstrip(s, chars) ==
    IF s # <<>> /\ s[1] \in chars THEN lstrip(Tail(s), chars) ELSE s

strip(s, chars) == lstrip(rstrip(s, chars), chars)

\* s.startswith(p)
startswith(s, p) == Len(s) >= Len(p) /\ SubSeq(s, 1, Len(p)) = p

\* A float is held as its number v of ten-thousandths, v >= 0 (0.1004 is
\* 1004).  '{:.3f}'.format(x) rounds to the nearest thousandth; the floats of
\* the model have no 5 as their last digit, so no rounding is a tie.
format_3f(v) ==
    LET t == (v + 5) \div 10
    IN  str_int(t \div 1000) \o <<".">> \o Pad(str_int(t % 1000), 3)

\* str(x) of a float: the shortest decimal that reads back as x
str_float(v) ==
    LET frac == rstrip(Pad(str_int(v % 10000), 4), {"0"})
    IN  str_int(v \div 10000) \o <<".">> \o (IF frac = <<>> THEN <<"0">> ELSE frac)

\* remove_illegal_chars: re.sub(r'[\\/:"*?<>|]', '', filename)
illegal_chars == {"\\", "/", ":", "\"", "*", "?", "<", ">", "|"}
remove_illegal_chars(filename) ==
    SelectSeq(filename, LAMBDA ch : ch \notin illegal_chars)

---------------------------------------------------------------------------
(* simulation.py: Parameter objects and the arguments of simulate() *)

\* the values an expr holds: int, float (in ten-thousandths), str, and a
\* value of no supported type (None)
IntV(n) == [type |-> "int", i |-> n, s |-> <<>>]
FloatV(v) == [type |-> "float", i |-> v, s |-> <<>>]
StrV(t) == [type |-> "str", i |-> 0, s |-> t]
NoneV == [type |-> "none", i |-> 0, s |-> <<>>]

\* str(value)
str(x) ==
    IF x.type = "int" THEN str_int(x.i)
    ELSE IF x.type = "float" THEN str_float(x.i)
    ELSE IF x.type = "str" THEN x.s
    ELSE <<"N", "o", "n", "e">>

\* expr: a number or string, or a list of them
Scalar(x) == [list |-> FALSE, vals |-> <<x>>]
List(xs) == [list |-> TRUE, vals |-> xs]

\* class Parameter
Parameter(name, expression, u) == [name |-> name, expr |-> expression, unit |-> u]

DCprefix == <<"D", "C">>
csv == <<".", "c", "s", "v">>
Volt0 == <<"0", "[", "V", "]">>
Volt1 == <<"1", "[", "V", "]">>
Volt7 == <<"7", "[", "V", "]">>
um == <<"[", "u", "m", "]">>
datapath == <<"d", "a", "t", "a">>

DC1 == <<"D", "C", "1">>
DCc == <<"D", "C", "c">>
DCs == <<"D", "C", "s">>
DC2 == <<"D", "C", "2">>
nameL == <<"L">>
named == <<"d">>
nameT == <<"T">>

\* the expression a DC parameter of the mph file holds before the run
DCValues == {Volt1, Volt7}

\* the mph files: the parameter table of the COMSOL model, in its order.
\* Two electrodes; a blade trap with a length, a width and three
\* electrodes; a model without electrodes.
MphFiles ==
    {<< <<DC1, a>>, <<DC2, b>> >> : a \in DCValues, b \in DCValues}
    \cup {<< <<nameL, <<"1", "0", "0">> \o um>>, <<DC1, a>>,
             <<named, <<"0", ".", "8", "*", "L">> >>, <<DCc, b>>, <<DCs, c>> >>
          : a \in DCValues, b \in DCValues, c \in DCValues}
    \cup {<< <<nameL, <<"1", "0", "0">> \o um>> >>}

\* the numbers of export nodes of the mph files
ExportNodes == {1, 2}

\* the *parameters simulate() is called with (parameters other than DC
\* voltages, each name once): none; the example of the docstring; two
\* floats that differ in the fourth decimal; a scalar and a list; a list
\* with a value of no supported type; an empty list; two floats and a
\* scalar string
ParameterArgs ==
    {<<>>,
     <<Parameter(nameL, List(<<IntV(100), IntV(200), IntV(400)>>), um),
       Parameter(named, List(<<StrV(<<"0", ".", "8", "*", "L">>),
                               StrV(<<"0", ".", "9", "*", "L">>)>>), <<>>)>>,
     <<Parameter(nameL, List(<<FloatV(1001), FloatV(1004)>>), <<"[", "m", "m", "]">>)>>,
     <<Parameter(nameT, Scalar(IntV(5)), <<>>),
       Parameter(nameL, List(<<IntV(1), IntV(2)>>), um)>>,
     <<Parameter(nameL, List(<<IntV(1), NoneV>>), <<>>)>>,
     <<Parameter(nameL, List(<<>>), um)>>,
     <<Parameter(nameL, List(<<FloatV(1000), FloatV(2500)>>), <<>>),
       Parameter(named, Scalar(StrV(<<"2", "*", "L">>)), <<>>)>>}

\* the content of an exported file: the solve it holds the data of
Export(set, param, parameters, node) ==
    [set |-> set, param |-> param, parameters |-> parameters, node |-> node]

\* the data folder before the run: empty, or holding the directory and a
\* file of an earlier run
InitialTrees ==
    {<<>>,
     [p \in {datapath \o <<"/", "L", "=", "1", "0", "0", ",", "d", "=", "0", ".", "8", "L">>}
         |-> [f \in {<<"D", "C", "9">> \o csv} |-> Export(0, <<"D", "C", "9">>, <<>>, 0)]]}

---------------------------------------------------------------------------
(* simulation.py: simulate();  ctrl_voltage.py *)

\* model.parameter(name, value): set, or create, a parameter of the model
SetParameter(m, name, value) ==
    [n \in (DOMAIN m) \cup {name} |-> IF n = name THEN value ELSE m[n]]

\* client.load(mphpath): the parameter table of the mph file
RECURSIVE LoadTable(_)
LoadTable(mph) ==
    IF mph = <<>> THEN <<>>
    ELSE SetParameter(LoadTable(SubSeq(mph, 1, Len(mph) - 1)),
                      mph[Len(mph)][1], mph[Len(mph)][2])

\* lines 62-69: the parameters whose expr is a list are kept, the others
\* are set at once
IsList(param) == param.expr.list

RECURSIVE SetScalars(_, _)
SetScalars(m, parameters) ==
    IF parameters = <<>> THEN m
    ELSE LET param == Head(parameters)
             rest == Tail(parameters)
         IN  IF IsList(param) THEN SetScalars(m, rest)
             ELSE SetScalars(SetParameter(m, param.name, str(param.expr.vals[1]) \o param.unit),
                             rest)

\* lines 72-74
expr_list(lps) == [i \in 1..Len(lps) |-> lps[i].expr.vals]

RECURSIVE Flatten(_)
Flatten(ss) == IF ss = <<>> THEN <<>> ELSE Head(ss) \o Flatten(Tail(ss))

\* the product with the FIRST list varying fastest
RECURSIVE product_FirstFastest(_)
product_FirstFastest(lists) ==
    IF lists = <<>> THEN << <<>> >>
    ELSE LET last == lists[Len(lists)]
             rest == product_FirstFastest(SubSeq(lists, 1, Len(lists) - 1))
         IN  Flatten([i \in 1..Len(last) |-> [j \in 1..Len(rest) |-> Append(rest[j], last[i])]])

\* itertools.product(*lists): the tuples in the order of nested for-loops,
\* the last list varying fastest; product() is the one empty tuple
RECURSIVE product(_)
product(lists) ==
    IF lists = <<>> THEN << <<>> >>
    ELSE LET first == Head(lists)
             rest == product(Tail(lists))
         IN  Flatten([i \in 1..Len(first) |-> [j \in 1..Len(rest) |-> <<first[i]>> \o rest[j]]])

Supported(x) == x.type \in {"int", "float", "str"}

\* lines 81-92 for the first n parameters of the combination: the table
\* after their model.parameter calls ...
RECURSIVE SetCombination(_, _, _, _)
SetCombination(m, lps, pset, n) ==
    IF n = 0 THEN m
    ELSE SetParameter(SetCombination(m, lps, pset, n - 1),
                      lps[n].name, str(pset[n]) \o lps[n].unit)

\* ... and dirname: name=value, for each; an int through str, a float
\* through '{:.3f}', a string as it is
RECURSIVE dirname(_, _, _)
dirname(lps, pset, n) ==
    IF n = 0 THEN <<>>
    ELSE dirname(lps, pset, n - 1) \o lps[n].name \o <<"=">>
         \o (IF pset[n].type = "float" THEN format_3f(pset[n].i) ELSE str(pset[n]))
         \o <<",">>

\* os.path.join(datapath, dirname): dirname never starts with a separator,
\* remove_illegal_chars took them out
join(path, name) == path \o <<"/">> \o name

\* rmtree(path): the directory and everything below it
Below(d, path) == d = path \/ startswith(d, rstrip(path, {"/"}) \o <<"/">>)
rmtree(tree, path) == [d \in {e \in DOMAIN tree : ~Below(e, path)} |-> tree[d]]
\* os.makedirs(path)
makedirs(tree, path) == [d \in (DOMAIN tree) \cup {path} |-> IF d = path THEN <<>> ELSE tree[d]]

\* lines 104-106 without effect: no DC parameter is reset
ZeroDC_Skip(m, pd) == m

\* lines 104-106: every parameter of paramdict whose name starts with 'DC'
\* is set to '0[V]'
ZeroDC(m, pd) ==
    [n \in DOMAIN m |->
        IF startswith(n, DCprefix) /\ \E j \in 1..Len(pd) : pd[j] = n THEN Volt0 ELSE m[n]]

\* lines 110-112: every node of model/'exports' writes dirpath/param.csv;
\* the file holds what the last node wrote
RunExports(tree, path, param, entry, n) ==
    IF n = 0 THEN tree
    ELSE [tree EXCEPT ![path] =
             SetParameter(@, param \o csv, Export(entry.set, param, entry.parameters, n))]

\* simulate(), lines 58-77
Call_simulate ==
    /\ pc = "idle"
    /\ \E mph \in MphFiles, parameters \in ParameterArgs, tree \in InitialTrees,
          n \in ExportNodes :
        /\ paramdict' = [i \in 1..Len(mph) |-> mph[i][1]]
        /\ model' = SetScalars(LoadTable(mph), parameters)
        /\ list_parameters' = SelectSeq(parameters, IsList)
        /\ fs' = tree
        /\ nodes' = n
    /\ op' = "simulate"
    /\ pc' = "product"
    /\ UNCHANGED <<unit, samples, pos, curv, zlim, zeta, r0, fvec0, J0, sol, ddU, w, scan, ret>>
    /\ UNCHANGED <<consumed, parameter_set, dirpath, dci, solves, files>>

\* simulate(), lines 78-99: the next tuple of the product; its parameters
\* are set and its directory is made anew
NextCombination ==
    /\ pc = "product"
    /\ consumed < Len(product(expr_list(list_parameters)))
    /\ LET pset == product(expr_list(list_parameters))[consumed + 1]
           number_of_list_parameter == Len(list_parameters)
           bad == {i \in 1..number_of_list_parameter : ~Supported(pset[i])}
       IN  /\ consumed' = consumed + 1
           /\ parameter_set' = pset
           /\ IF bad # {}
              THEN \* line 92, after the parameters before the offending one
                   /\ model' = SetCombination(model, list_parameters, pset, MinOf(bad) - 1)
                   /\ ret' = Raised("TypeError")
                   /\ pc' = "done"
                   /\ UNCHANGED <<dirpath, fs, dci>>
              ELSE /\ model' = SetCombination(model, list_parameters, pset,
                                              number_of_list_parameter)
                   /\ dirpath' = join(datapath,
                                      remove_illegal_chars(
                                          rstrip(dirname(list_parameters, pset,
                                                         number_of_list_parameter), {","})))
                   /\ fs' = makedirs(rmtree(fs, dirpath'), dirpath')
                   /\ dci' = 0
                   /\ pc' = "sweep"
                   /\ UNCHANGED ret
    /\ UNCHANGED <<op, unit, samples, pos, curv, zlim, zeta, r0, fvec0, J0, sol, ddU, w, scan>>
    /\ UNCHANGED <<paramdict, nodes, list_parameters, solves, files>>

\* ctrl_voltage.py, lines 6-11
Call_ctrl_voltage ==
    /\ pc = "idle"
    /\ \E mph \in MphFiles, tree \in InitialTrees, n \in ExportNodes :
        /\ paramdict' = [i \in 1..Len(mph) |-> mph[i][1]]
        /\ model' = LoadTable(mph)
        /\ fs' = makedirs(rmtree(tree, datapath), datapath)
        /\ nodes' = n
    /\ dirpath' = datapath
    /\ dci' = 0
    /\ op' = "ctrl_voltage"
    /\ pc' = "sweep"
    /\ UNCHANGED <<unit, samples, pos, curv, zlim, zeta, r0, fvec0, J0, sol, ddU, w, scan, ret>>
    /\ UNCHANGED <<list_parameters, consumed, parameter_set, solves, files>>

\* the names of paramdict that start with 'DC', by their position
IsDC(i) == startswith(paramdict[i], DCprefix)
NextDC == {i \in (dci + 1)..Len(paramdict) : IsDC(i)}

\* one pass of 'for param in paramdict' that finds a DC parameter
\* (simulation.py lines 102-112, ctrl_voltage.py lines 13-23): all DC
\* parameters to '0[V]', this one to '1[V]', solve, export
SolveElectrode ==
    /\ pc = "sweep"
    /\ NextDC # {}
    /\ LET i == MinOf(NextDC)
           param == paramdict[i]
           table == SetParameter(ZeroDC(model, paramdict), param, Volt1)
           entry == [set |-> consumed, param |-> param, dirpath |-> dirpath,
                     parameters |-> table]
       IN  /\ model' = table
           /\ solves' = Append(solves, entry)
           /\ fs' = RunExports(fs, dirpath, param, entry, nodes)
           /\ dci' = i
    /\ UNCHANGED <<op, pc, unit, samples, pos, curv, zlim, zeta, r0, fvec0, J0, sol, ddU, w,
                   scan, ret>>
    /\ UNCHANGED <<paramdict, nodes, list_parameters, consumed, parameter_set, dirpath, files>>

\* 'for param in paramdict' is exhausted: simulate() takes the next
\* combination, the script of ctrl_voltage.py ends (lines 25-27)
EndSweep ==
    /\ pc = "sweep"
    /\ NextDC = {}
    /\ dci' = Len(paramdict)
    /\ IF op = "simulate"
       THEN pc' = "product" /\ UNCHANGED ret
       ELSE pc' = "done" /\ ret' = Returned(<<>>)
    /\ UNCHANGED <<op, unit, samples, pos, curv, zlim, zeta, r0, fvec0, J0, sol, ddU, w, scan>>
    /\ UNCHANGED <<paramdict, model, nodes, list_parameters, consumed, parameter_set,
                   dirpath, fs, solves, files>>

\* simulate(), lines 114-116: the product is exhausted
EndSimulate ==
    /\ pc = "product"
    /\ consumed = Len(product(expr_list(list_parameters)))
    /\ ret' = Returned(<<>>)
    /\ pc' = "done"
    /\ UNCHANGED <<op, unit, samples, pos, curv, zlim, zeta, r0, fvec0, J0, sol, ddU, w, scan>>
    /\ UNCHANGED simvars


---------------------------------------------------------------------------
(* simulation.py, load.py: load() *)

\* s.split(sep)
RECURSIVE split(_, _)
split(s, sep) ==
    IF \A i \in 1..Len(s) : s[i] # sep THEN <<s>>
    ELSE LET i == MinOf({j \in 1..Len(s) : s[j] = sep})
         IN  <<SubSeq(s, 1, i - 1)>> \o split(SubSeq(s, i + 1, Len(s)), sep)

\* load() is called with datalabel = 'x,V,Ey' and coordinates = 1
datalabel == <<"x", ",", "V", ",", "E", "y">>
coordinates == 1

\* the electrodes whose files the loaded directories hold
Electrodes == <<DC1, DC2, DCc, DCs>>

\* the file simulate() exported for electrode k: a line of annotation, which
\* starts with '%', and two lines of data with the cells x, V, Ey
DataFile(k) ==
    [name |-> Electrodes[k] \o csv,
     rows |-> <<[annotation |-> TRUE, cells |-> <<>>],
                [annotation |-> FALSE, cells |-> <<0, k, 10 * k>>],
                [annotation |-> FALSE, cells |-> <<1, k + 1, -k>>]>>]

\* the directories load() is called on, by the electrodes of their files,
\* and what os.listdir returns for them: the files in any order
LoadFolders == {{}, {1, 2}, {1, 3, 4}, {4}}
Listings ==
    UNION {{[i \in 1..Cardinality(S) |-> DataFile(p[i])] :
               p \in {q \in [1..Cardinality(S) -> S] :
                         \A i, j \in 1..Cardinality(S) : i # j => q[i] # q[j]}}
           : S \in LoadFolders}

\* lines 182-188: the lines that are no annotation, read as a table with the
\* header datalabel; data[var].values is the column of the label var
Index(labels, var) == MinOf({i \in 1..Len(labels) : labels[i] = var})
Column(file, labels, var) ==
    LET newlines == SelectSeq(file.rows, LAMBDA row : ~row.annotation)
    IN  [r \in 1..Len(newlines) |-> newlines[r].cells[Index(labels, var)]]

\* d[key] = value
SetItem(d, key, value) == [k \in (DOMAIN d) \cup {key} |-> IF k = key THEN value ELSE d[k]]

\* lines 181-193 for one quantity: DCi = file.strip('.csv'), and
\* vars[DCi] = data[var].values, file after file
RECURSIVE FillDict(_, _, _)
FillDict(fl, labels, var) ==
    IF fl = <<>> THEN <<>>
    ELSE LET file == fl[Len(fl)]
             DCi == strip(file.name, Elems(csv))
         IN  SetItem(FillDict(SubSeq(fl, 1, Len(fl) - 1), labels, var),
                     DCi, Column(file, labels, var))

\* load(): the list of the coordinate arrays, read from the data of the last
\* file, and of the quantities' dictionaries.  Without a file, data is not
\* bound at line 196.
load(fl, label, ncoord) ==
    LET labels == split(label, ",")
    IN  IF fl = <<>> /\ ncoord > 0 THEN Raised("NameError")
        ELSE Returned([i \in 1..Len(labels) |->
                          IF i <= ncoord THEN Column(fl[Len(fl)], labels, labels[i])
                          ELSE FillDict(fl, labels, labels[i])])

Call_load ==
    /\ pc = "idle"
    /\ \E fl \in Listings :
        /\ files' = fl
        /\ ret' = load(fl, datalabel, coordinates)
    /\ op' = "load"
    /\ pc' = "done"
    /\ UNCHANGED <<unit, samples, pos, curv, zlim, zeta, r0, fvec0, J0, sol, ddU, w, scan>>
    /\ UNCHANGED <<paramdict, model, nodes, list_parameters, consumed, parameter_set,
                   dirpath, fs, dci, solves>>

---------------------------------------------------------------------------
Next ==
    \/ Call_unit_to_num
    \/ Call_eqposition
    \/ Call_eqposition_analytic
    \/ Call_Eqposition
    \/ Call_mode1d
    \/ Call_mode1d_analytic
    \/ Call_AxialMode
    \/ EigSort
    \/ Call_eqposition_sym
    \/ Call_SymEqposition
    \/ ScanAdvance
    \/ Bisect
    \/ Call_simulate
    \/ NextCombination
    \/ Call_ctrl_voltage
    \/ SolveElectrode
    \/ EndSweep
    \/ EndSimulate
    \/ Call_load

Spec == Init /\ [][Next]_vars

---------------------------------------------------------------------------
(* Properties *)

GeneralSolvers == {"eqposition", "eqposition_analytic", "Eqposition"}
ModeSolvers == {"mode1d", "mode1d_analytic", "AxialMode"}
SymSolvers == {"eqposition_sym", "SymEqposition"}
SampledPaths == {"eqposition_sym", "eqposition", "mode1d"}

\* the ions' positions as the solver sees them: rescaled in the sampled
\* paths, as given in the others
IonZeta ==
    [i \in 1..Len(pos) |->
        IF op \in SampledPaths THEN XDiv(Rat(pos[i]), zlim) ELSE Rat(pos[i])]

Coincident == \E i, j \in 1..Len(pos) : i # j /\ pos[i] = pos[j]

\* the call ended by raising the exception e
Fails(e) == pc = "done" /\ ret.kind = "raise" /\ ret.exc = e
Returns == pc = "done" /\ ret.kind = "return"

\* a general solver has called scipy.optimize.root and come back
Solved == op \in GeneralSolvers /\ pc = "done" /\ sol # NoSol

\* a normal-mode solver has built its matrix
Built == op \in ModeSolvers /\ ddU # <<>>

\* C1: a general equilibrium solver whose nonlinear solve did not converge
\* ends in a ConvergenceFailure error and returns no position vector.
C1_ConvergenceFailure ==
    (Solved /\ ~sol.success) => Fails("ConvergenceFailure")

\* C2: an initial guess with two coincident ions makes the equilibrium solve
\* fail with DegenerateConfiguration: no force or Jacobian term is evaluated
\* with a zero difference and no result with nan or inf is returned.
C2_DegenerateConfiguration ==
    (Solved /\ Coincident) =>
        /\ Fails("DegenerateConfiguration")
        /\ \A i \in 1..Len(fvec0) : IsFinite(fvec0[i])
        /\ \A i, j \in 1..Len(J0) : IsFinite(J0[i][j])

\* C3: for one ion the force is V'(zeta) exactly, the 1x1 Jacobian is
\* V''(zeta) exactly, and the evaluation divides by nothing.
C3_SingleIon ==
    (Solved /\ Len(pos) = 1) =>
        /\ fvec0 = <<dVfun(curv, IonZeta[1])>>
        /\ J0 = << <<ddVfun(curv, IonZeta[1])>> >>
        /\ Divisors(IonZeta) = {}

C3_Witness ==
    /\ Solved
    /\ Len(pos) = 1
    /\ pos[1] # 0
    /\ curv[1] > 0
    /\ XSign(fvec0[1]) # 0

\* C4: the matrix H of the normal-mode solvers is symmetric for pairwise
\* distinct ion positions in any index order.
C4_HessianSymmetric ==
    (Built /\ ~Coincident) =>
        \A n, m \in 1..Len(ddU) : n # m => ddU[n][m] = ddU[m][n]

C4_Witness ==
    /\ Built
    /\ ~Coincident
    /\ Len(pos) = 3
    /\ pos[1] > pos[3]
    /\ pos[3] > pos[2]
    /\ curv[2] # 0

\* the call with every position negated, index order kept, and the
\* mirrored curvature x -> V''(-x)
MirrorCurv == <<curv[1], -curv[2]>>
MirrorZeta == [i \in 1..Len(pos) |-> XNeg(IonZeta[i])]
MirrorH == Hessian(MirrorCurv, r0, MirrorZeta)

Trace(H) == XSum([i \in 1..Len(H) |-> H[i][i]])
Det2(H) == XSub(XMul(H[1][1], H[2][2]), XMul(H[1][2], H[2][1]))
SortedSpectrum(H) == Take(Spectrum(H), argsort(Spectrum(H)))

\* C5: negating every position (index order kept) and mirroring the
\* curvature leaves the returned frequencies unchanged; for two ions the two
\* matrices have the same trace and the same determinant.
C5_SignFlipInvariant ==
    (Built /\ ~Coincident) =>
        /\ Trace(MirrorH) = Trace(ddU)
        /\ Len(ddU) = 2 => Det2(MirrorH) = Det2(ddU)
        /\ (Returns /\ SpectrumKnown(MirrorH)) =>
               ret.val = frequencies(SortedSpectrum(MirrorH))

\* the single entry of the one-ion matrix for the same well
SingleIonH == Hessian(curv, r0, <<IonZeta[1]>>)[1][1]

\* C6: for a harmonic well and two ions at any two distinct positions the
\* smallest eigenvalue of H is the single entry of the one-ion matrix, and
\* the lowest frequency is the single-ion frequency.
C6_LowestModeIsSingleIon ==
    (Built /\ Returns /\ Len(pos) = 2 /\ ~Coincident /\ curv[1] > 0 /\ curv[2] = 0) =>
        /\ \E i \in 1..2 : w[i] = SingleIonH /\ \A j \in 1..2 : XLe(w[i], w[j])
        /\ ret.val[1] = XSqrt(SingleIonH)

\* C7: when all eigenvalues are non-negative the returned frequencies are
\* the transforms of the eigenvalues in ascending order of eigenvalue: a
\* permutation of them, none lost or duplicated, and ascending themselves.
C7_SortedFrequencies ==
    (Built /\ Returns /\ \A i \in 1..Len(w) : XLe(Zero, w[i])) =>
        /\ Len(ret.val) = Len(w)
        /\ \E p \in Orders(Len(w)) :
            /\ \A i, j \in 1..Len(w) : i < j => XLe(w[p[i]], w[p[j]])
            /\ \A i \in 1..Len(w) : ret.val[i] = XSqrt(w[p[i]])
        /\ \A i \in 1..(Len(w) - 1) : XLe(ret.val[i], ret.val[i + 1])

C7_Witness ==
    /\ Built
    /\ Returns
    /\ Len(w) = 2
    /\ XLe(Zero, w[2])
    /\ XLt(w[2], w[1])
    /\ XLt(ret.val[1], ret.val[2])

\* the potential is flat: solfunc(pos) = e/(4*pi*epsilon0*r0)/(4*pos**2) is
\* positive at every pos > 0, so no interval holds a sign change
FlatPotential == curv = <<0, 0>>

\* C8: the bracket scan stops after a bounded number of steps, and fails
\* with BracketNotFound when it found no sign change (MaxScan stands for
\* the bound of the search).
C8_BracketNotFound ==
    (op \in SymSolvers /\ FlatPotential /\ scan.k >= MaxScan) =>
        Fails("BracketNotFound")

\* C9: in every sampled path zlim is the largest absolute sample value and
\* every rescaled sample lies in [-1, 1].
C9_RescaledWithinUnit ==
    (op \in SampledPaths /\ \E i \in 1..Len(SampleArray(samples)) : SampleArray(samples)[i] # 0) =>
        /\ zlim = Rat(MaxOf({Abs(x) : x \in Elems(SampleArray(samples))}))
        /\ \A i \in 1..Len(zeta) : XLe(XAbs(zeta[i]), One)

\* C10: unit_to_num returns 1, 1e-3, 1e-6, 1e-9 for metres, millimetres,
\* micrometres and nanometres in the bracketed and the bare spelling, fails
\* on every other tag without a value (the code's exception for an
\* unrecognised unit is TypeError), and changes nothing else.
C10_UnitToNum ==
    op = "unit_to_num" =>
        /\ unit \in {"[m]", "m"} => Returns /\ ret.val = <<1, 1>>
        /\ unit \in {"[mm]", "mm"} => Returns /\ ret.val = <<1, 1000>>
        /\ unit \in {"[um]", "um"} => Returns /\ ret.val = <<1, 1000000>>
        /\ unit \in {"[nm]", "nm"} => Returns /\ ret.val = <<1, 1000000000>>
        /\ unit \notin {"[m]", "m", "[mm]", "mm", "[um]", "um", "[nm]", "nm"} =>
               Fails("TypeError") /\ ret.val = NaN
        /\ <<samples, pos, curv, zlim, zeta, r0, fvec0, J0, sol, ddU, w, scan>>
               = <<(<<>>), (<<>>), (<<0, 0>>), NaN, (<<>>), NaN, (<<>>), (<<>>), NoSol,
                   (<<>>), (<<>>), NoScan>>

C10_Witness == op = "unit_to_num" /\ unit = "ft" /\ Fails("TypeError")

Drivers == {"simulate", "ctrl_voltage"}

\* in the table, param is '1[V]' and every other parameter whose name starts
\* with 'DC' is '0[V]'
OneVoltOthersZero(table, param) ==
    /\ param \in DOMAIN table
    /\ table[param] = Volt1
    /\ \A n \in DOMAIN table : (startswith(n, DCprefix) /\ n # param) => table[n] = Volt0

\* the files the exports of this run wrote (the others were there before)
Exported(d) == {f \in DOMAIN fs[d] : fs[d][f].node > 0}

\* C11: in the voltage sweep, at every model.solve() and in every file
\* <electrode>.csv an export wrote, the parameter <electrode> is '1[V]' and
\* every other parameter whose name starts with 'DC' is '0[V]', whatever the
\* DC parameters held before.
C11_OneVoltOthersZero ==
    op \in Drivers =>
        /\ \A n \in 1..Len(solves) : OneVoltOthersZero(solves[n].parameters, solves[n].param)
        /\ (pc = "sweep" /\ solves # <<>> /\ dci > 0 /\ IsDC(dci)) =>
               /\ model = solves[Len(solves)].parameters
               /\ OneVoltOthersZero(model, paramdict[dci])
        /\ \A d \in DOMAIN fs : \A f \in Exported(d) :
               /\ f = fs[d][f].param \o csv
               /\ OneVoltOthersZero(fs[d][f].parameters, fs[d][f].param)

C11_Witness ==
    /\ op = "simulate"
    /\ Len(paramdict) = 5
    /\ consumed = 2
    /\ Len(solves) = 5
    /\ solves[5].param = DCc
    /\ solves[4].parameters[DC1] = Volt1
    /\ solves[5].parameters[DC1] = Volt0
    /\ (DCc \o csv) \in Exported(dirpath)

\* the parameters of paramdict whose name starts with 'DC', in order
DCNames == SelectSeq(paramdict, LAMBDA n : startswith(n, DCprefix))
DCDone == Cardinality({j \in 1..dci : IsDC(j)})

\* the k-th tuple of the Cartesian product in product order, written out:
\* the count k - 1 in the mixed radix of the lists' lengths, last list last
ListLen(i) == Len(list_parameters[i].expr.vals)
RECURSIVE SizeFrom(_)
SizeFrom(i) == IF i > Len(list_parameters) THEN 1 ELSE ListLen(i) * SizeFrom(i + 1)
Component(k, i) ==
    list_parameters[i].expr.vals[(((k - 1) \div SizeFrom(i + 1)) % ListLen(i)) + 1]
Combination(k) == [i \in 1..Len(list_parameters) |-> Component(k, i)]

\* C12: simulate() visits the combinations of the Cartesian product of the
\* list parameters once each, in product order; during a combination's
\* solves the list parameters hold its values; within a combination every
\* DC parameter is solved and exported once, in order; when simulate()
\* returns the number of solves is (size of the product) x (number of DC
\* parameters).
C12_ProductSweep ==
    op = "simulate" =>
        /\ consumed <= SizeFrom(1)
        /\ \A n \in 1..Len(solves) :
            /\ solves[n].set = ((n - 1) \div Len(DCNames)) + 1
            /\ solves[n].param = DCNames[((n - 1) % Len(DCNames)) + 1]
            /\ \A i \in 1..Len(list_parameters) :
                   solves[n].parameters[list_parameters[i].name]
                       = str(Component(solves[n].set, i)) \o list_parameters[i].unit
        /\ pc = "sweep" =>
            /\ parameter_set = Combination(consumed)
            /\ Len(solves) = (consumed - 1) * Len(DCNames) + DCDone
            /\ DOMAIN fs[dirpath] = {paramdict[j] \o csv : j \in {q \in 1..dci : IsDC(q)}}
            /\ \A f \in DOMAIN fs[dirpath] : fs[dirpath][f].set = consumed
        /\ Returns =>
            /\ consumed = SizeFrom(1)
            /\ Len(solves) = SizeFrom(1) * Len(DCNames)

C12_Witness ==
    /\ op = "simulate"
    /\ Returns
    /\ Len(list_parameters) = 2
    /\ Len(DCNames) = 3
    /\ Len(solves) = 18
    /\ solves[7].parameters[nameL] = <<"2", "0", "0">> \o um
    /\ solves[7].parameters[named] = <<"0", ".", "8", "*", "L">>

\* s.endswith(p), and s without its last Len(p) characters
endswith(s, p) == Len(s) >= Len(p) /\ SubSeq(s, Len(s) - Len(p) + 1, Len(s)) = p
WithoutSuffix(s, p) == SubSeq(s, 1, Len(s) - Len(p))

\* C13: for every file <electrode>.csv of the loaded directory, the
\* dictionary of each physical quantity holds that file's values under the
\* key <electrode>, the file name without its '.csv'; n files with distinct
\* names give n keys.
C13_KeyIsElectrode ==
    (op = "load" /\ files # <<>>) =>
        /\ Returns
        /\ \A q \in (coordinates + 1)..Len(split(datalabel, ",")) :
            /\ \A i \in 1..Len(files) :
                   endswith(files[i].name, csv) =>
                       /\ WithoutSuffix(files[i].name, csv) \in DOMAIN ret.val[q]
                       /\ ret.val[q][WithoutSuffix(files[i].name, csv)]
                              = Column(files[i], split(datalabel, ","),
                                       split(datalabel, ",")[q])
            /\ Cardinality(DOMAIN ret.val[q]) = Len(files)

\* the scalar function of the scan, and the scan's arguments
g(x) == solfunc(curv, r0, x)
ScanArgs == IF op = "SymEqposition" THEN {SymScanParams} ELSE ScanParams
\* the i-th interval of a linear scan from start with the step length step
ScanLo(i) == XAdd(scan.start, XMul(Rat(i), scan.step))
ScanHi(i) == XAdd(scan.start, XMul(Rat(i + 1), scan.step))
\* the factor between the scan's coordinate and the returned one
ScanScale == IF op = "eqposition_sym" THEN zlim ELSE One

\* C14: the bracket scan is linear and stops at the first sign change: the
\* step length is never changed; after k advances the scan stands at
\* pos0 + k*step; the product g(lo)*g(hi) is positive on each of the k
\* intervals before; and when the loop has ended, g(lo)*g(hi) <= 0 on the
\* interval [pos0 + k*step, pos0 + (k+1)*step], which is the bracket of the
\* bisection.
C14_LinearScan ==
    (op \in SymSolvers /\ scan # NoScan) =>
        /\ \E ps \in ScanArgs : scan.start = ps[1] /\ scan.step = ps[2]
        /\ scan.pos0 = ScanLo(scan.k)
        /\ \A i \in 0..(scan.k - 1) : XSign(g(ScanLo(i))) * XSign(g(ScanHi(i))) > 0
        /\ pc = "done" =>
            /\ IsFinite(g(ScanLo(scan.k))) /\ IsFinite(g(ScanHi(scan.k)))
            /\ XSign(g(ScanLo(scan.k))) * XSign(g(ScanHi(scan.k))) <= 0
            /\ Returns
            /\ XLe(XMul(ScanLo(scan.k), ScanScale), ret.val[2])
            /\ XLe(ret.val[2], XMul(ScanHi(scan.k), ScanScale))

C14_Witness ==
    /\ op \in SymSolvers
    /\ Returns
    /\ scan.k >= 2
    /\ XSign(g(ScanLo(scan.k))) > 0
    /\ XSign(g(ScanHi(scan.k))) < 0

\* C15: within one run of simulate() two distinct combinations get two
\* distinct directories, so the files a combination exported are still
\* there, holding its data, whatever combinations followed.
C15_DistinctDirectories ==
    op = "simulate" =>
        \A n \in 1..Len(solves) :
            /\ \A m \in 1..Len(solves) :
                   Combination(solves[n].set) # Combination(solves[m].set)
                       => solves[n].dirpath # solves[m].dirpath
            /\ solves[n].dirpath \in DOMAIN fs
            /\ (solves[n].param \o csv) \in DOMAIN fs[solves[n].dirpath]
            /\ fs[solves[n].dirpath][solves[n].param \o csv].set = solves[n].set

===========================================================================
